---- MODULE Spec2Model ----
(***************************************************************************)
(* Model of the infographics package (src/src/infographics/__init__.py):   *)
(* ensure_gis, the memoized get_countries, get_standard_infographics,      *)
(* get_organization_infographics and create_infographic.                   *)
(*                                                                         *)
(* Python strings that the code inspects character by character (file      *)
(* names, export formats, type keywords) are sequences of one-character    *)
(* strings.  Strings that the code only compares or copies (country codes, *)
(* hierarchy codes, session handles) are TLA+ strings.                     *)
(***************************************************************************)
EXTENDS Integers, Sequences, FiniteSets, TLC

VARIABLES
    active_gis,     \* arcgis.env.active_gis as bound at import time
    service,        \* the countries array the Countries endpoint serves now
    cache,          \* functools.cache of get_countries: session -> <<>> or <<frame>>
    fetches,        \* Countries requests sent so far, per session
    call,           \* the last completed get_countries / get_standard_infographics call
    orgCall,        \* the last completed get_organization_infographics call
    reportCall      \* the last completed create_infographic call

vars == <<active_gis, service, cache, fetches, call, orgCall, reportCall>>

----------------------------------------------------------------------------
(* Bounds of the model *)

\* at most this many Countries requests are sent in a behaviour
MaxFetches == 3
\* a Standard response carries at most this many reports
MaxReports == 1
\* a file name has at most this many dot-separated parts
MaxSegs == 2
\* a study-area list has at most this many elements
MaxGeoms == 2
\* a content search returns at most this many items
MaxItems == 2

----------------------------------------------------------------------------
(* Values *)

NoneVal == "None"

\* two usable sessions, and one whose helper services lack geoenrichment
Sessions == {"gis1", "gis2"}
NoGeoenrichment == "gisNoGeo"
GisArgs == Sessions \cup {NoGeoenrichment, NoneVal}

\* countries arrays the Countries endpoint can serve (id, hierarchy IDs)
CountriesA ==
    << [id |-> "US", hierarchies |-> <<"esri", "census">>],
       [id |-> "CA", hierarchies |-> <<"census", "esri">>] >>
CountriesB ==
    << [id |-> "US", hierarchies |-> <<"esri">>],
       [id |-> "CA", hierarchies |-> <<"census", "esri", "landscape">>] >>
ServiceData == {CountriesA, CountriesB}

CountryArgs == {"US", "CA", "ZZ"}
HierarchyCodes == {"esri", "census"}
\* the hierarchy argument: omitted, one string, or (against the annotation) a list
HierarchyArgs ==
    {[kind |-> "none", val |-> <<>>]}
    \cup {[kind |-> "str", val |-> <<h>>] : h \in HierarchyCodes}
    \cup {[kind |-> "list", val |-> <<"esri", "census">>]}

NoFrame == [columns |-> <<>>, rows |-> <<>>]

----------------------------------------------------------------------------
(* ensure_gis *)

ensure_gis(gis) ==
    LET g == IF gis = NoneVal THEN active_gis ELSE gis IN
    IF g = NoneVal THEN [ok |-> FALSE, gis |-> g]
    ELSE IF g = NoGeoenrichment THEN [ok |-> FALSE, gis |-> g]
    ELSE [ok |-> TRUE, gis |-> g]

----------------------------------------------------------------------------
(* get_countries *)

\* one row per (country, hierarchy): lines 67-75, json_normalize, the ID
\* extraction and DataFrame.explode on non-empty hierarchy lists
RECURSIVE explode(_)
explode(countries) ==
    IF countries = <<>> THEN <<>>
    ELSE LET c == Head(countries) IN
         [i \in 1..Len(c.hierarchies) |-> [id |-> c.id, hierarchies |-> c.hierarchies[i]]]
         \o explode(Tail(countries))

\* what the Countries endpoint can answer to one request: the data it
\* serves now, or a failure that gis._con.get raises
CountriesResponses == {[ok |-> TRUE, countries |-> service], [ok |-> FALSE, countries |-> <<>>]}

\* a faulty variant of cache_lookup: no memoization at all
cache_lookup_nomemo(c, gis) == <<>>

\* @cache: the entry stored for this argument, <<>> when there is none
cache_lookup(c, gis) == c[gis]

\* @cache stores the value a call returns; a call that raises stores nothing
cache_store(c, gis, res) ==
    IF res.ok THEN [c EXCEPT ![gis] = <<explode(res.countries)>>] ELSE c

\* get_countries(gis) for a usable session, given the answer `res` the
\* endpoint gives if it is asked: the outcome, the frame, the requests sent
\* and the cache afterwards
get_countries(gis, res) ==
    LET entry == cache_lookup(cache, gis) IN
    IF entry # <<>>
    THEN [outcome |-> "ok", countries_df |-> entry[1], requests |-> <<>>,
          hit |-> TRUE, cache |-> cache]
    ELSE [outcome |-> IF res.ok THEN "ok" ELSE "UpstreamError",
          countries_df |-> IF res.ok THEN explode(res.countries) ELSE <<>>,
          requests |-> << [endpoint |-> "Countries", country |-> "", hierarchy |-> ""] >>,
          hit |-> FALSE,
          cache |-> cache_store(cache, gis, res)]

\* the answers that matter to a call with this argument: the endpoint is
\* asked only when the call gets as far as line 64
CountriesAnswers(gis) ==
    IF ensure_gis(gis).ok /\ cache_lookup(cache, ensure_gis(gis).gis) = <<>>
    THEN CountriesResponses
    ELSE {[ok |-> FALSE, countries |-> <<>>]}

----------------------------------------------------------------------------
(* get_standard_infographics *)

\* the fixed output columns, lines 125-137
OutColumns ==
    <<"reportID", "title", "itemID", "formats", "dataVintage", "countries",
      "hierarchy", "category">>

\* the columns kept of a response, lines 160-172
StdColumns ==
    <<"reportID", "title", "itemID", "formats", "dataVintage", "countries",
      "hierarchy">>

\* what an Infographics/Standard endpoint can answer to one request: a
\* failure, a body without "reports", or a reports array of n entries
StandardResponses ==
    {[kind |-> "fail", n |-> 0], [kind |-> "nokey", n |-> 0]}
    \cup {[kind |-> "reports", n |-> n] : n \in 0..MaxReports}

InList(x, lst) == \E i \in DOMAIN lst : lst[i] = x

\* list(countries_df.id)
id_list(countries_df) == [i \in DOMAIN countries_df |-> countries_df[i].id]

\* a faulty variant of country_available: the country check is skipped
country_available_skip(country_iso2, countries_df) == TRUE

\* line 97, negated
country_available(country_iso2, countries_df) ==
    InList(country_iso2, id_list(countries_df))

\* list(countries_df[countries_df["id"] == c]["hierarchies"])
hierarchies_of(countries_df, c) ==
    LET rows == SelectSeq(countries_df, LAMBDA r : r.id = c) IN
    [i \in DOMAIN rows |-> rows[i].hierarchies]

\* the country whose hierarchies line 116 validates against
ReferenceCountry == "US"

\* a faulty variant of invalid_lst: only the first invalid code is reported
invalid_lst_first(countries_df, hrchy_lst) ==
    LET bad == SelectSeq(hrchy_lst,
                   LAMBDA h : ~InList(h, hierarchies_of(countries_df, ReferenceCountry)))
    IN IF bad = <<>> THEN <<>> ELSE <<bad[1]>>

\* lines 113-117
invalid_lst(countries_df, hrchy_lst) ==
    SelectSeq(hrchy_lst,
        LAMBDA h : ~InList(h, hierarchies_of(countries_df, ReferenceCountry)))

\* pd.json_normalize(reports) narrowed to StdColumns, plus category
std_ig_df(hrchy, n) ==
    [columns |-> Append(StdColumns, "category"),
     rows |-> [i \in 1..n |-> [reportID |-> i, hierarchy |-> hrchy,
                                category |-> "standard"]]]

\* pd.concat of two frames
concat(a, b) ==
    [columns |-> a.columns \o SelectSeq(b.columns, LAMBDA c : ~InList(c, a.columns)),
     rows |-> a.rows \o b.rows]

\* a faulty variant of accumulate: every pass saves its frame over the output
accumulate_overwrite(idx, out_df, frame) == frame

\* lines 175-181
accumulate(idx, out_df, frame) ==
    IF idx = 0 THEN frame ELSE concat(out_df, frame)

StandardRequest(country_iso2, hrchy) ==
    [endpoint |-> "Standard", country |-> country_iso2, hierarchy |-> hrchy]

\* the loop of lines 140-181 from pass idx (0-based) on
RECURSIVE iterate_hierarchies(_, _, _, _, _, _)
iterate_hierarchies(country_iso2, hrchy_lst, answers, idx, out_df, requests) ==
    IF idx >= Len(hrchy_lst)
    THEN [outcome |-> "ok", out_df |-> out_df, requests |-> requests]
    ELSE
        LET hrchy == hrchy_lst[idx + 1]
            res == answers[idx + 1]
            sent == Append(requests, StandardRequest(country_iso2, hrchy))
        IN
        IF res.kind = "fail"
        THEN [outcome |-> "UpstreamError", out_df |-> NoFrame, requests |-> sent]
        ELSE IF res.kind = "reports" /\ res.n > 0
        THEN iterate_hierarchies(country_iso2, hrchy_lst, answers, idx + 1,
                 accumulate(idx, out_df, std_ig_df(hrchy, res.n)), sent)
        ELSE iterate_hierarchies(country_iso2, hrchy_lst, answers, idx + 1,
                 out_df, sent)

\* a finished get_countries / get_standard_infographics call
CallRecord(op, gis, country_iso2, hierarchy, outcome, requests, hit, countries_df, hrchy_lst, invalid, out_df) ==
    [op |-> op, gis |-> gis, country_iso2 |-> country_iso2, hierarchy |-> hierarchy,
     outcome |-> outcome, requests |-> requests, hit |-> hit,
     countries_df |-> countries_df, hrchy_lst |-> hrchy_lst,
     invalid_lst |-> invalid, out_df |-> out_df, answers |-> <<>>]

NoCall ==
    CallRecord("none", NoneVal, "", [kind |-> "none", val |-> <<>>], "none", <<>>,
               FALSE, <<>>, <<>>, <<>>, NoFrame)

\* lines 90-122: everything before the output frame is created.  outcome
\* "continue" means the loop is entered with hrchy_lst.
std_validate(country_iso2, gis, hierarchy, res) ==
    LET e == ensure_gis(gis) IN
    IF ~e.ok
    THEN [c |-> CallRecord("get_standard_infographics", gis, country_iso2, hierarchy,
                    "ConfigValueError", <<>>, FALSE, <<>>, <<>>, <<>>, NoFrame),
          cache |-> cache]
    ELSE
        LET gc == get_countries(e.gis, res)
            rec(outcome, hl, inv) ==
                [c |-> CallRecord("get_standard_infographics", gis, country_iso2,
                           hierarchy, outcome, gc.requests, gc.hit,
                           gc.countries_df, hl, inv, NoFrame),
                 cache |-> gc.cache]
        IN
        IF gc.outcome # "ok" THEN rec(gc.outcome, <<>>, <<>>)
        ELSE IF ~country_available(country_iso2, gc.countries_df)
        THEN rec("ValueError", <<>>, <<>>)
        ELSE IF hierarchy.kind = "list"
        THEN rec("UnboundLocalError", <<>>, <<>>)
        ELSE
            LET hl == IF hierarchy.kind = "none"
                      THEN hierarchies_of(gc.countries_df, country_iso2)
                      ELSE hierarchy.val
                inv == invalid_lst(gc.countries_df, hl)
            IN
            IF Len(inv) > 0 THEN rec("ValueError", hl, inv)
            ELSE rec("continue", hl, <<>>)

CountriesRequests(requests) ==
    Len(SelectSeq(requests, LAMBDA r : r.endpoint = "Countries"))

StandardRequests(requests) ==
    SelectSeq(requests, LAMBDA r : r.endpoint = "Standard")

\* the number of passes of the loop after validation ended as record c
Passes(c) == IF c.outcome = "continue" THEN Len(c.hrchy_lst) ELSE 0

\* the whole call: validation v (lines 90-122), then lines 124-183 with the
\* answers of the Standard endpoints
get_standard_infographics(v, answers) ==
    IF v.c.outcome # "continue" THEN v
    ELSE
        LET out == iterate_hierarchies(v.c.country_iso2, v.c.hrchy_lst, answers, 0,
                       [columns |-> OutColumns, rows |-> <<>>], v.c.requests)
        IN [c |-> [v.c EXCEPT !.outcome = out.outcome, !.requests = out.requests,
                               !.out_df = out.out_df,
                               !.answers = SubSeq(answers, 1, Len(StandardRequests(out.requests)))],
            cache |-> v.cache]

\* the session a call sends its Countries request with
SessionOf(gis) == ensure_gis(gis).gis

CountFetches(gis, requests) ==
    IF CountriesRequests(requests) = 0 THEN fetches
    ELSE [fetches EXCEPT ![SessionOf(gis)] = @ + CountriesRequests(requests)]

RECURSIVE SumOver(_, _)
SumOver(f, S) ==
    IF S = {} THEN 0
    ELSE LET x == CHOOSE y \in S : TRUE IN f[x] + SumOver(f, S \ {x})

TotalFetches == SumOver(fetches, Sessions)

----------------------------------------------------------------------------
(* Actions of the lookup functions *)

\* a direct call get_countries(gis)
GetCountries ==
    \E gis \in GisArgs :
      \E res \in CountriesAnswers(gis) :
        IF gis \notin Sessions
        THEN \* gis.properties... raises before any request; nothing is stored
             /\ call = NoCall
             /\ call' = CallRecord("get_countries", gis, "",
                            [kind |-> "none", val |-> <<>>], "AttributeError", <<>>,
                            FALSE, <<>>, <<>>, <<>>, NoFrame)
             /\ UNCHANGED <<active_gis, service, cache, fetches, orgCall, reportCall>>
        ELSE \E gc \in {get_countries(gis, res)} :
             /\ call = NoCall
             /\ TotalFetches + Len(gc.requests) <= MaxFetches
             /\ call' = CallRecord("get_countries", gis, "",
                            [kind |-> "none", val |-> <<>>], gc.outcome, gc.requests,
                            gc.hit, gc.countries_df, <<>>, <<>>, NoFrame)
             /\ cache' = gc.cache
             /\ fetches' = [fetches EXCEPT ![gis] = @ + Len(gc.requests)]
             /\ UNCHANGED <<active_gis, service, orgCall, reportCall>>

GetStandardInfographics ==
    /\ call = NoCall
    /\ \E country_iso2 \in CountryArgs, gis \in GisArgs, hierarchy \in HierarchyArgs :
      \E res \in CountriesAnswers(gis) :
      \E v \in {std_validate(country_iso2, gis, hierarchy, res)} :
        \E answers \in [1..Passes(v.c) -> StandardResponses] :
          \E r \in {get_standard_infographics(v, answers)} :
            /\ TotalFetches + CountriesRequests(r.c.requests) <= MaxFetches
            /\ call' = r.c
            /\ cache' = r.cache
            /\ fetches' = CountFetches(gis, r.c.requests)
            /\ UNCHANGED <<active_gis, service, orgCall, reportCall>>

\* the caller has taken the result (or the exception) of the last call
Return ==
    /\ call # NoCall
    /\ call' = NoCall
    /\ UNCHANGED <<active_gis, service, cache, fetches, orgCall, reportCall>>

\* the data behind the Countries endpoint changes
ServiceDataChanges ==
    /\ \E d \in ServiceData \ {service} : service' = d
    /\ UNCHANGED <<active_gis, cache, fetches, call, orgCall, reportCall>>

NoOrgCall == [gis |-> NoneVal, outcome |-> "none", itm_lst |-> <<>>, cst_ig_df |-> <<>>]
NoReportCall == [gis |-> NoneVal, outcome |-> "none", create_report |-> <<>>]

Init ==
    /\ active_gis \in {NoneVal, "gis1"}
    /\ service \in ServiceData
    /\ cache = [s \in Sessions |-> <<>>]
    /\ fetches = [s \in Sessions |-> 0]
    /\ call = NoCall
    /\ orgCall = NoOrgCall
    /\ reportCall = NoReportCall

Next ==
    \/ GetCountries
    \/ GetStandardInfographics
    \/ Return
    \/ ServiceDataChanges

Spec == Init /\ [][Next]_vars

----------------------------------------------------------------------------
(* Properties of the lookup functions, checked under Spec *)

\* the last call is a get_standard_infographics call that got its country table
StdWithTable ==
    call.op = "get_standard_infographics" /\ call.countries_df # <<>>

CountryInTable ==
    \E i \in DOMAIN call.countries_df : call.countries_df[i].id = call.country_iso2

\* the hierarchy codes the table lists for country c
HierarchySet(c) ==
    {call.countries_df[i].hierarchies :
        i \in {j \in DOMAIN call.countries_df : call.countries_df[j].id = c}}

\* C1 as stated: a get_standard_infographics call whose country code is
\* absent from the country table fails with ValueError and sends no request
\* at all, neither to Countries nor to Infographics/Standard.
C1_NoRequestAtAll ==
    (StdWithTable /\ ~CountryInTable)
        => (call.outcome = "ValueError" /\ call.requests = <<>>)

\* C1 amended: such a call fails with ValueError and sends no
\* Infographics/Standard request; the only request it can send is the one
\* Countries request that fetches the table, and it sends none when the
\* table of its session is already memoized.
C1_UnknownCountryRejected ==
    (StdWithTable /\ ~CountryInTable)
        => /\ call.outcome = "ValueError"
           /\ StandardRequests(call.requests) = <<>>
           /\ Len(call.requests) <= 1
           /\ call.hit => call.requests = <<>>

C1_Witness ==
    /\ StdWithTable /\ ~CountryInTable
    /\ call.hit
    /\ call.outcome = "ValueError"

\* the codes a call asks for: the string given, or the country's own codes
RequestedCodes ==
    IF call.hierarchy.kind = "str" THEN call.hierarchy.val
    ELSE [i \in 1..Len(SelectSeq(call.countries_df,
                          LAMBDA r : r.id = call.country_iso2)) |->
             SelectSeq(call.countries_df,
                 LAMBDA r : r.id = call.country_iso2)[i].hierarchies]

C3_AtMostOneRequest ==
    \A s \in Sessions : fetches[s] <= 1

\* the session of the last call, when the call got as far as get_countries
CallSession ==
    IF call.op = "get_countries" THEN call.gis ELSE SessionOf(call.gis)

ReturnedTable ==
    /\ call.op \in {"get_countries", "get_standard_infographics"}
    /\ call.countries_df # <<>>

\* C3 amended: the table a call obtained for its session is memoized, and
\* once a session has a memoized table no step sends a Countries request
\* for it or replaces the table, and every later call with that session gets
\* that table, even if the service data changed.  (A call that raised
\* memoizes nothing, so the next call with that session fetches again.)
C3_MemoizedAfterSuccess ==
    /\ [](ReturnedTable => cache[CallSession] = <<call.countries_df>>)
    /\ [][\A s \in Sessions :
            cache[s] # <<>> => /\ fetches'[s] = fetches[s]
                               /\ cache'[s] = cache[s]]_vars

\* a second call on a memoized session, made after the service data changed
C3_Witness ==
    /\ ReturnedTable /\ call.hit
    /\ call.countries_df # explode(service)
    /\ fetches[CallSession] = 1

RECURSIVE ExpectedRows(_, _)
ExpectedRows(hrchy_lst, answers) ==
    IF hrchy_lst = <<>> THEN <<>>
    ELSE LET n == IF Head(answers).kind = "reports" THEN Head(answers).n ELSE 0 IN
         [i \in 1..n |-> [reportID |-> i, hierarchy |-> Head(hrchy_lst),
                           category |-> "standard"]]
         \o ExpectedRows(Tail(hrchy_lst), Tail(answers))

\* C8: a call that returns has the fixed eight columns, also when every
\* hierarchy gave zero reports (then it has no rows); its rows are the rows
\* of the responses in hierarchy order, so a hierarchy with zero reports adds
\* none and drops none, wherever it stands in the list.
C8_ZeroReportHierarchies ==
    (call.op = "get_standard_infographics" /\ call.outcome = "ok")
        => /\ call.out_df.columns =
                  <<"reportID", "title", "itemID", "formats", "dataVintage",
                    "countries", "hierarchy", "category">>
           /\ call.out_df.rows = ExpectedRows(call.hrchy_lst, call.answers)
           /\ (\A i \in DOMAIN call.answers :
                   call.answers[i].kind = "nokey" \/ call.answers[i].n = 0)
                  => call.out_df.rows = <<>>

\* reports for the first hierarchy, none for the second
C8_Witness ==
    /\ call.op = "get_standard_infographics" /\ call.outcome = "ok"
    /\ Len(call.answers) = 2
    /\ call.answers[1].kind = "reports" /\ call.answers[1].n > 0
    /\ call.answers[2].kind = "nokey"
    /\ Len(call.out_df.rows) = call.answers[1].n

\* C10: with the hierarchy omitted and a country code of the table, the call
\* does not fail with a validation error, and when it returns it has sent
\* exactly one Infographics/Standard request per hierarchy of that country,
\* in table order.
C10_OmittedHierarchyUsesCountry ==
    (StdWithTable /\ CountryInTable /\ call.hierarchy.kind = "none")
        => /\ call.outcome # "ValueError"
           /\ call.outcome = "ok" =>
                  StandardRequests(call.requests) =
                      [i \in DOMAIN RequestedCodes |->
                          [endpoint |-> "Standard", country |-> call.country_iso2,
                           hierarchy |-> RequestedCodes[i]]]

----------------------------------------------------------------------------
(* Python strings as sequences of characters *)

UpperCase ==
    <<"A", "B", "C", "D", "E", "F", "G", "H", "I", "J", "K", "L", "M",
      "N", "O", "P", "Q", "R", "S", "T", "U", "V", "W", "X", "Y", "Z">>
LowerCase ==
    <<"a", "b", "c", "d", "e", "f", "g", "h", "i", "j", "k", "l", "m",
      "n", "o", "p", "q", "r", "s", "t", "u", "v", "w", "x", "y", "z">>

lower_char(c) ==
    IF \E i \in DOMAIN UpperCase : UpperCase[i] = c
    THEN LowerCase[CHOOSE i \in DOMAIN UpperCase : UpperCase[i] = c]
    ELSE c

\* a faulty variant of lower: the string is used as given
lower_identity(str) == str

\* str.lower()
lower(str) == [i \in DOMAIN str |-> lower_char(str[i])]

\* sub in str
contains(sub, str) ==
    \E i \in 1..(Len(str) - Len(sub) + 1) : SubSeq(str, i, i + Len(sub) - 1) = sub

\* str.rfind("."), 1-based, 0 when there is no dot
rfind_dot(str) ==
    IF \E i \in DOMAIN str : str[i] = "."
    THEN CHOOSE i \in DOMAIN str :
             str[i] = "." /\ \A j \in DOMAIN str : str[j] = "." => j <= i
    ELSE 0

\* str.lstrip(".")
RECURSIVE lstrip_dot(_)
lstrip_dot(str) ==
    IF str # <<>> /\ Head(str) = "." THEN lstrip_dot(Tail(str)) ELSE str

\* PurePath.suffix: the part of the name from its last dot on, if that dot
\* is neither the first nor the last character of the name
suffix(name) ==
    LET i == rfind_dot(name) IN
    IF 1 < i /\ i < Len(name) THEN SubSeq(name, i, Len(name)) ELSE <<>>

sReport == <<"r", "e", "p", "o", "r", "t">>
sPdf == <<"p", "d", "f">>
sPDF == <<"P", "D", "F">>
sHtm == <<"h", "t", "m">>
sHtml == <<"h", "t", "m", "l">>
sHtmlMixed == <<"H", "t", "m", "l">>
sXlsx == <<"x", "l", "s", "x">>
sTxt == <<"t", "x", "t">>
sDocx == <<"d", "o", "c", "x">>

----------------------------------------------------------------------------
(* create_infographic *)

\* the parts file names are built of; the empty part gives names such as
\* "report." and ".pdf"
NameParts == {<<>>, sReport, sPdf, sPDF, sHtm, sHtml, sTxt}

RECURSIVE join_dot(_)
join_dot(parts) ==
    IF Len(parts) = 1 THEN parts[1]
    ELSE parts[1] \o <<".">> \o join_dot(Tail(parts))

FileNames ==
    {join_dot(parts) : parts \in UNION {[1..n -> NameParts] : n \in 1..MaxSegs}}

\* out_path: a pathlib.Path (parent and name), or a plain str
OutPathArgs ==
    {[kind |-> "str", parent |-> "", name |-> <<>>]}
    \cup {[kind |-> "Path", parent |-> d, name |-> n] :
             d \in {".", "out"}, n \in FileNames}

\* export_format: a string, or None
ExportFormatArgs ==
    {[kind |-> "none", val |-> <<>>]}
    \cup {[kind |-> "str", val |-> f] : f \in {sPdf, sPDF, sHtmlMixed, sXlsx, sDocx}}

\* a study area: a Geometry, or something else
StudyAreaItems ==
    {[type |-> "Geometry", JSON |-> "polygon"], [type |-> "dict", JSON |-> ""]}

\* study_areas: one object, or a list of objects
StudyAreaArgs ==
    {[is_list |-> FALSE, items |-> <<x>>] : x \in StudyAreaItems}
    \cup {[is_list |-> TRUE, items |-> l] :
             l \in UNION {[1..n -> StudyAreaItems] : n \in 0..MaxGeoms}}

\* what create_report can do: write the file and return its path, or raise
ReportAnswers == {"written", "fail"}

\* line 258
all_geometries(in_geom) ==
    \A i \in DOMAIN in_geom : in_geom[i].type = "Geometry"

\* a faulty variant of format_supported: any format is let through
format_supported_any(export_format) == TRUE

\* line 265
format_supported(export_format) ==
    export_format \in {sXlsx, sPdf, sHtml}

\* a faulty variant of ensure_extension: the .htm special case is missing
ensure_extension_no_htm(out_name, file_extension, export_format) ==
    IF export_format # file_extension
    THEN out_name \o <<".">> \o export_format
    ELSE out_name

\* a faulty variant of ensure_extension: the format is appended without a dot
ensure_extension_no_dot(out_name, file_extension, export_format) ==
    IF ~(file_extension = sHtm /\ export_format = sHtml)
    THEN IF export_format # file_extension
         THEN out_name \o export_format
         ELSE out_name
    ELSE out_name

\* lines 273-275
ensure_extension(out_name, file_extension, export_format) ==
    IF ~(file_extension = sHtm /\ export_format = sHtml)
    THEN IF export_format # file_extension
         THEN out_name \o <<".">> \o export_format
         ELSE out_name
    ELSE out_name

ReportRecord(study_areas, infographic_id, out_path, export_format, gis, outcome, create_report) ==
    [study_areas |-> study_areas, infographic_id |-> infographic_id,
     out_path |-> out_path, export_format |-> export_format, gis |-> gis,
     outcome |-> outcome, create_report |-> create_report]

\* the whole call; create_report holds the arguments of the (at most one)
\* create_report invocation
create_infographic(study_areas, infographic_id, out_path, export_format, gis, answer) ==
    LET rec(outcome, invoked) ==
            ReportRecord(study_areas, infographic_id, out_path, export_format, gis,
                         outcome, invoked)
        e == ensure_gis(gis)
        in_geom == study_areas.items
    IN
    IF ~e.ok THEN rec("ConfigValueError", <<>>)
    ELSE IF ~all_geometries(in_geom) THEN rec("AssertionError", <<>>)
    ELSE IF export_format.kind = "none" THEN rec("AttributeError", <<>>)
    ELSE IF ~format_supported(lower(export_format.val)) THEN rec("AssertionError", <<>>)
    ELSE IF out_path.kind = "str" THEN rec("AttributeError", <<>>)
    ELSE
        LET fmt == lower(export_format.val)
            out_folder == out_path.parent
            file_extension == lstrip_dot(suffix(out_path.name))
            out_name == ensure_extension(out_path.name, file_extension, fmt)
            args == [study_areas |-> [i \in DOMAIN in_geom |->
                                         [geometry |-> in_geom[i].JSON]],
                     report |-> infographic_id,
                     export_format |-> fmt,
                     out_folder |-> out_folder,
                     out_name |-> out_name,
                     gis |-> e.gis]
        IN rec(IF answer = "written" THEN "ok" ELSE "UpstreamError", <<args>>)

CreateInfographic ==
    /\ reportCall = NoReportCall
    /\ \E study_areas \in StudyAreaArgs, out_path \in OutPathArgs,
          export_format \in ExportFormatArgs, gis \in GisArgs,
          answer \in ReportAnswers :
           reportCall' = create_infographic(study_areas, "infographic-1", out_path,
                                            export_format, gis, answer)
    /\ UNCHANGED <<active_gis, service, cache, fetches, call, orgCall>>

\* the caller has taken the path (or the exception) of the last call
ReturnReport ==
    /\ reportCall # NoReportCall
    /\ reportCall' = NoReportCall
    /\ UNCHANGED <<active_gis, service, cache, fetches, call, orgCall>>

NextCreate ==
    \/ CreateInfographic
    \/ ReturnReport

SpecCreate == Init /\ [][NextCreate]_vars

----------------------------------------------------------------------------
(* Properties of create_infographic, checked under SpecCreate *)

\* the last create_infographic call invoked create_report
Invoked == reportCall.outcome # "none" /\ reportCall.create_report # <<>>

ReportArgs == reportCall.create_report[1]

\* the extension of the output path, without its dot
PathExtension == lstrip_dot(suffix(reportCall.out_path.name))

\* the export format asked for, lower-cased
AskedFormat == lower(reportCall.export_format.val)

EndsWith(str, tail) ==
    Len(str) >= Len(tail) /\ SubSeq(str, Len(str) - Len(tail) + 1, Len(str)) = tail

AllGeometries ==
    \A i \in DOMAIN reportCall.study_areas.items :
        reportCall.study_areas.items[i].type = "Geometry"

SupportedFormat ==
    /\ reportCall.export_format.kind = "str"
    /\ AskedFormat \in {sXlsx, sPdf, sHtml}

\* C4: create_report is invoked only if every study area is a Geometry and
\* the lower-cased export format is xlsx, pdf or html; a call with a
\* non-geometry study area or another format fails without invoking it.
C4_ReportOnlyAfterValidation ==
    reportCall.outcome # "none"
        => /\ reportCall.create_report # <<>> => (AllGeometries /\ SupportedFormat)
           /\ ~(AllGeometries /\ SupportedFormat)
                  => (reportCall.outcome # "ok" /\ reportCall.create_report = <<>>)
           /\ Len(reportCall.create_report) <= 1

\* a list of two geometries and format "PDF" reach create_report
C4_Witness ==
    /\ Invoked
    /\ reportCall.study_areas.is_list /\ Len(reportCall.study_areas.items) = 2
    /\ reportCall.export_format.val = sPDF

\* C5: when the path's extension equals the export format up to letter case,
\* the file name passed to create_report is the path's file name, with no
\* second extension appended.
C5_NoDuplicateExtension ==
    (Invoked /\ PathExtension # <<>> /\ lower(PathExtension) = AskedFormat)
        => ReportArgs.out_name = reportCall.out_path.name

\* the path's file name without its extension
PathStem ==
    SubSeq(reportCall.out_path.name, 1,
           Len(reportCall.out_path.name) - Len(suffix(reportCall.out_path.name)))

HtmPair == PathExtension = sHtm /\ AskedFormat = sHtml

\* C6 as stated: outside the .htm/html pairing the file name passed ends in
\* the export format, and a path with another extension has that extension
\* replaced, not kept inside the name.
C6_ExtensionReplaced ==
    (Invoked /\ ~HtmPair)
        => /\ EndsWith(ReportArgs.out_name, <<".">> \o AskedFormat)
           /\ (PathExtension # <<>> /\ lower(PathExtension) # AskedFormat)
                  => ReportArgs.out_name = PathStem \o <<".">> \o AskedFormat

\* C6 amended: outside the .htm/html pairing the file name passed ends in
\* "." and the lower-cased export format: a path whose extension is already
\* that format keeps its name, and every other path, with or without an
\* extension, gets "." and the format appended to its whole name, so an old
\* extension stays inside the name.
C6_ExtensionAppended ==
    (Invoked /\ ~HtmPair)
        => /\ EndsWith(ReportArgs.out_name, <<".">> \o AskedFormat)
           /\ PathExtension = AskedFormat
                  => ReportArgs.out_name = reportCall.out_path.name
           /\ PathExtension # AskedFormat
                  => ReportArgs.out_name =
                         reportCall.out_path.name \o <<".">> \o AskedFormat

\* report.txt with format pdf
C6_Witness ==
    /\ Invoked
    /\ reportCall.out_path.name = sReport \o <<".">> \o sTxt
    /\ AskedFormat = sPdf
    /\ ReportArgs.out_name = sReport \o <<".">> \o sTxt \o <<".">> \o sPdf

\* C7: with path extension htm and export format html (after lower-casing),
\* create_report gets the path's file name unchanged, the path's directory
\* as output folder and "html" as export format.
C7_HtmKeptForHtml ==
    (Invoked /\ HtmPair)
        => /\ ReportArgs.out_name = reportCall.out_path.name
           /\ ReportArgs.out_folder = reportCall.out_path.parent
           /\ ReportArgs.export_format = sHtml

\* report.htm in folder out, with format "Html"
C7_Witness ==
    /\ Invoked
    /\ reportCall.out_path.name = sReport \o <<".">> \o sHtm
    /\ reportCall.out_path.parent = "out"
    /\ reportCall.export_format.val = sHtmlMixed

----------------------------------------------------------------------------
(* get_organization_infographics *)

sInfographic == <<"i", "n", "f", "o", "g", "r", "a", "p", "h", "i", "c">>
sInfographicTemplate ==
    <<"I", "n", "f", "o", "g", "r", "a", "p", "h", "i", "c", "-",
      "T", "e", "m", "p", "l", "a", "t", "e">>
sTemplate == <<"t", "e", "m", "p", "l", "a", "t", "e">>
sUpperInfographics ==
    <<"I", "N", "F", "O", "G", "R", "A", "P", "H", "I", "C", "S">>
sInfo == <<"I", "n", "f", "o">>
sGraphic == <<"g", "r", "a", "p", "h", "i", "c">>

\* Report Template items of the organization
Items ==
    { [id |-> "item1", title |-> "Demographics", typeKeywords |-> <<sInfographicTemplate>>],
      [id |-> "item2", title |-> "Tabular", typeKeywords |-> <<sTemplate>>],
      [id |-> "item3", title |-> "Market", typeKeywords |-> <<sTemplate, sUpperInfographics>>],
      [id |-> "item4", title |-> "Bare", typeKeywords |-> <<>>],
      [id |-> "item5", title |-> "Split", typeKeywords |-> <<sInfo, sGraphic>>] }

\* what gis.content.search can return: lists of distinct items
SearchResults ==
    {l \in UNION {[1..n -> Items] : n \in 0..MaxItems} :
        \A i, j \in DOMAIN l : i # j => l[i] # l[j]}

\* line 203
has_infographic_keyword(itm) ==
    \E k \in DOMAIN itm.typeKeywords : contains(sInfographic, lower(itm.typeKeywords[k]))

\* the whole call, given the search result, or "fail" when the search raises
get_organization_infographics(gis, found, answer) ==
    LET e == ensure_gis(gis) IN
    IF ~e.ok
    THEN [gis |-> gis, outcome |-> "ConfigValueError", itm_lst |-> <<>>, cst_ig_df |-> <<>>]
    ELSE IF answer = "fail"
    THEN [gis |-> gis, outcome |-> "UpstreamError", itm_lst |-> <<>>, cst_ig_df |-> <<>>]
    ELSE
        LET ig_itm_lst == SelectSeq(found, has_infographic_keyword)
        IN [gis |-> gis, outcome |-> "ok", itm_lst |-> found,
            cst_ig_df |-> [i \in DOMAIN ig_itm_lst |->
                              [title |-> ig_itm_lst[i].title,
                               itemID |-> ig_itm_lst[i].id,
                               category |-> "custom"]]]

GetOrganizationInfographics ==
    /\ orgCall = NoOrgCall
    /\ \E gis \in GisArgs, found \in SearchResults, answer \in {"found", "fail"} :
           orgCall' = get_organization_infographics(gis, found, answer)
    /\ UNCHANGED <<active_gis, service, cache, fetches, call, reportCall>>

\* the caller has taken the table (or the exception) of the last call
ReturnOrg ==
    /\ orgCall # NoOrgCall
    /\ orgCall' = NoOrgCall
    /\ UNCHANGED <<active_gis, service, cache, fetches, call, reportCall>>

NextOrg ==
    \/ GetOrganizationInfographics
    \/ ReturnOrg

SpecOrg == Init /\ [][NextOrg]_vars

----------------------------------------------------------------------------
(* Properties of get_organization_infographics, checked under SpecOrg *)

\* the items that have a type keyword containing "infographic" in any
\* letter case: "Infographic-Template" (item1) and "INFOGRAPHICS" (item3)
InfographicItems == {"item1", "item3"}

\* C9: the table has one row for each found item with a type keyword that
\* contains "infographic" compared case-insensitively, none for any other
\* item, in search order, and every row has category "custom".
C9_OnlyInfographicItems ==
    orgCall.outcome = "ok"
        => /\ [i \in DOMAIN orgCall.cst_ig_df |-> orgCall.cst_ig_df[i].itemID]
                  = LET hits == SelectSeq(orgCall.itm_lst,
                                    LAMBDA itm : itm.id \in InfographicItems)
                    IN [i \in DOMAIN hits |-> hits[i].id]
           /\ \A i \in DOMAIN orgCall.cst_ig_df :
                  orgCall.cst_ig_df[i].category = "custom"

\* a search that found "template" only and then "Infographic-Template"
C9_Witness ==
    /\ orgCall.outcome = "ok"
    /\ Len(orgCall.itm_lst) = 2
    /\ orgCall.itm_lst[1].id = "item2" /\ orgCall.itm_lst[2].id = "item1"
    /\ Len(orgCall.cst_ig_df) = 1
    /\ orgCall.cst_ig_df[1].itemID = "item1"

====
